---------------------------- MODULE Spec2Model ----------------------------
(***************************************************************************)
(* A model of eatmymail.py: duplicate pruning of Maildir folders by a pool *)
(* of worker processes fed from one shared queue.                          *)
(*                                                                         *)
(* The mailbox store (Python's mailbox.Maildir) is modelled by what the    *)
(* code calls on it: iteritems, get, lock, remove, flush, unlock, close    *)
(* and list_folders.  list_folders returns folder NAMES (strings).         *)
(***************************************************************************)
EXTENDS Integers, Sequences, FiniteSets, TLC

(***************************************************************************)
(* Bounds of the model.                                                    *)
(***************************************************************************)
MaxMsgs == 3       \* messages in the folder of the one-folder specification
MaxCores == 2      \* multiprocessing.cpu_count() ranges over 1..MaxCores
MaxTargets == 2    \* length of args.target_dirs in the run specification

(***************************************************************************)
(* Program constants.                                                      *)
(***************************************************************************)
MaxInt == 2147483647   \* Value("i", ...): the largest value of a C int

(***************************************************************************)
(* Message records.  A header that is absent reads as None: present=FALSE. *)
(* A Message-Id holding non-ASCII bytes reads as an email.header.Header    *)
(* object, which is unhashable: hashable=FALSE.                            *)
(***************************************************************************)
NoHeader == [present |-> FALSE, hashable |-> TRUE, val |-> ""]
StrHeader(s) == [present |-> TRUE, hashable |-> TRUE, val |-> s]
ObjHeader(s) == [present |-> TRUE, hashable |-> FALSE, val |-> s]

Leaf(text) == [multipart |-> FALSE, text |-> text, parts |-> <<>>]
Multi(parts) == [multipart |-> TRUE, text |-> "", parts |-> parts]

(***************************************************************************)
(* hashlib.sha256(s.encode()).hexdigest(), idealised as collision free:    *)
(* an injective map from strings to strings.                               *)
(***************************************************************************)
Sha256(s) == "sha256[" \o s \o "]"

(***************************************************************************)
(* sep.join(iterable) of Python's str: the items of the iterable with sep  *)
(* between them.  The iterable is given as the sequence of its items; the  *)
(* items of the string "" are none.                                        *)
(***************************************************************************)
RECURSIVE StrJoin(_, _)
StrJoin(sep, items) ==
    IF items = <<>> THEN ""
    ELSE IF Len(items) = 1 THEN items[1]
    ELSE items[1] \o sep \o StrJoin(sep, Tail(items))

CharsOfEmptyString == <<>>

(***************************************************************************)
(* hash_content: a multipart message hashes every child, then hashes       *)
(* hashes[0].join(""); a leaf hashes str(payload).                         *)
(***************************************************************************)
RECURSIVE hash_content(_)
hash_content(body) ==
    IF body.multipart
    THEN LET hashes == [i \in 1..Len(body.parts) |-> hash_content(body.parts[i])]
         IN  Sha256(StrJoin(hashes[1], CharsOfEmptyString))
    ELSE Sha256(body.text)

(***************************************************************************)
(* Python dicts keep insertion order: a dict is a sequence of items        *)
(* [k |-> key, v |-> value] with distinct keys.                            *)
(***************************************************************************)
DictHas(d, k) == \E i \in DOMAIN d : d[i].k = k
DictIdx(d, k) == CHOOSE i \in DOMAIN d : d[i].k = k
DictSet(d, k, v) ==
    IF DictHas(d, k) THEN [d EXCEPT ![DictIdx(d, k)].v = v]
    ELSE Append(d, [k |-> k, v |-> v])
\* d[k].append(x) if k in d else d[k] = [x]
DictAppend(d, k, x) ==
    IF DictHas(d, k) THEN [d EXCEPT ![DictIdx(d, k)].v = Append(@, x)]
    ELSE Append(d, [k |-> k, v |-> <<x>>])
DictKeys(d) == {d[i].k : i \in DOMAIN d}

(***************************************************************************)
(* A store's content is the sequence of its (key, message) items in the    *)
(* order iteritems yields them.                                            *)
(***************************************************************************)
StoreKeys(items) == {items[i].key : i \in DOMAIN items}
StoreHas(items, key) == key \in StoreKeys(items)
StoreGet(items, key) == items[CHOOSE i \in DOMAIN items : items[i].key = key]
StoreDel(items, key) == SelectSeq(items, LAMBDA it : it.key # key)

\* GroupByMessageId without lines 139-140: None is grouped like any identifier
RECURSIVE GroupNoneToo(_, _)
GroupNoneToo(items, messages) ==
    IF items = <<>> THEN messages
    ELSE IF ~Head(items).mid.hashable
    THEN GroupNoneToo(Tail(items), messages)
    ELSE GroupNoneToo(Tail(items),
                      DictAppend(messages, Head(items).mid.val, Head(items).key))

\* GroupByMessageId with the header's name as the key: messages["Message-Id"]
RECURSIVE GroupByHeaderName(_, _)
GroupByHeaderName(items, messages) ==
    IF items = <<>> THEN messages
    ELSE IF ~Head(items).mid.present \/ ~Head(items).mid.hashable
    THEN GroupByHeaderName(Tail(items), messages)
    ELSE GroupByHeaderName(Tail(items),
                           DictAppend(messages, "Message-Id", Head(items).key))

(***************************************************************************)
(* prune, lines 137-148: the identifier groups.                            *)
(***************************************************************************)
RECURSIVE GroupByMessageId(_, _)
GroupByMessageId(items, messages) ==
    IF items = <<>> THEN messages
    ELSE LET it == Head(items)
         IN  IF ~it.mid.present
             THEN GroupByMessageId(Tail(items), messages)
             ELSE IF ~it.mid.hashable
             THEN GroupByMessageId(Tail(items), messages)
             ELSE GroupByMessageId(Tail(items),
                                   DictAppend(messages, it.mid.val, it.key))

(***************************************************************************)
(* prune, lines 156-165: the content groups of one identifier group.       *)
(* The message of each key is read again from the store (mbox.get).        *)
(***************************************************************************)
\* Hashsum with a placeholder of its own for every key in fast mode
HashsumPerKey(items, key, isFast) ==
    IF isFast THEN "-" \o ToString(key) ELSE hash_content(StoreGet(items, key).body)

Hashsum(items, key, isFast) ==
    IF isFast THEN "-" ELSE hash_content(StoreGet(items, key).body)

RECURSIVE GroupByHash(_, _, _, _)
GroupByHash(items, keys, isFast, dupes) ==
    IF keys = <<>> THEN dupes
    ELSE GroupByHash(items, Tail(keys), isFast,
                     DictAppend(dupes, Hashsum(items, Head(keys), isFast), Head(keys)))

\* lines 172-175: every key but the first of each content group
RECURSIVE MarkKeys(_, _, _)
MarkKeys(keys, hashsum, to_remove) ==
    IF keys = <<>> THEN to_remove
    ELSE MarkKeys(Tail(keys), hashsum, DictSet(to_remove, Head(keys), hashsum))

\* MarkDupes with "dupes[hashsum]" in place of "dupes[hashsum][1:]"
RECURSIVE MarkDupesFirstToo(_, _)
MarkDupesFirstToo(dupes, to_remove) ==
    IF dupes = <<>> THEN to_remove
    ELSE MarkDupesFirstToo(Tail(dupes),
                           IF Len(Head(dupes).v) > 1
                           THEN MarkKeys(Head(dupes).v, Head(dupes).k, to_remove)
                           ELSE to_remove)

RECURSIVE MarkDupes(_, _)
MarkDupes(dupes, to_remove) ==
    IF dupes = <<>> THEN to_remove
    ELSE MarkDupes(Tail(dupes),
                   IF Len(Head(dupes).v) > 1
                   THEN MarkKeys(Tail(Head(dupes).v), Head(dupes).k, to_remove)
                   ELSE to_remove)

\* lines 154-175
RECURSIVE Decide(_, _, _, _)
Decide(items, messages, isFast, to_remove) ==
    IF messages = <<>> THEN to_remove
    ELSE Decide(items, Tail(messages), isFast,
                IF Len(Head(messages).v) > 1
                THEN MarkDupes(GroupByHash(items, Head(messages).v, isFast, <<>>),
                               to_remove)
                ELSE to_remove)

\* mbox.get(key) gives None for a key that is gone; hash_content(None) raises
DecideRaises(items, messages, isFast) ==
    /\ ~isFast
    /\ \E i \in DOMAIN messages :
          /\ Len(messages[i].v) > 1
          /\ \E j \in DOMAIN messages[i].v : ~StoreHas(items, messages[i].v[j])


(***************************************************************************)
(* "value += b" on a Value("i"): ctypes stores a C int without an overflow *)
(* check, so the sum is taken modulo 2^32.  low is the value stored and    *)
(* carry the multiple of 2^32 lost: a + b = carry * 2^32 + low.  (No       *)
(* intermediate result leaves the 32-bit range.)                           *)
(***************************************************************************)
MinInt == -MaxInt - 1

AddWrap(a, b) ==
    IF b >= 0 /\ a > MaxInt - b
    THEN [carry |-> 1, low |-> (a - MaxInt - 1) + (b - MaxInt - 1)]
    ELSE IF b < 0 /\ a < MinInt - b
    THEN [carry |-> -1, low |-> (a + MaxInt + 1) + (b + MaxInt + 1)]
    ELSE [carry |-> 0, low |-> a + b]

Workers == 1..MaxCores
Dirs == {"d1", "d2"}
NoWorker == 0

VARIABLES
    fast,         \* args.fast
    dry_run,      \* args.dry_run
    mode,         \* Mode.CHECK or Mode.PRUNE
    num_cores,    \* multiprocessing.cpu_count()
    target_dirs,  \* args.target_dirs
    fs,           \* the directories: kind, items, folders, nextKey
    qbuffer,      \* Queue: items put, not yet written to the pipe
    qpipe,        \* Queue: items in the pipe, seen by empty() and get()
    cpc,          \* position of the main process
    report,       \* the totals main reads after the joins
    pc,           \* position of every worker process
    loc,          \* locals of process, prune and remove of every worker
    handle,       \* the store handle of every worker: locked, flushed, closed
    counter,      \* the four shared Values
    clock,        \* Counter.lock: its holder, or NoWorker
    ctx,          \* a worker inside "with self.lock": value read, amounts, return position
    faults,       \* whether store operations may fail in this run
    extBudget,    \* writes an external lock-respecting writer may still do
    hist          \* history: what has happened so far (read by no action)

vars == <<fast, dry_run, mode, num_cores, target_dirs, fs, qbuffer, qpipe, cpc,
          report, pc, loc, handle, counter, clock, ctx, faults, extBudget, hist>>

flags == <<fast, dry_run, mode, num_cores, target_dirs, faults>>

\* An exact sum n, kept as n = carry * 2^32 + low with low a C int.
ExactZero == [carry |-> 0, low |-> 0]
ExactAdd(n, b) == [carry |-> n.carry + AddWrap(n.low, b).carry,
                   low |-> AddWrap(n.low, b).low]
ExactIs(n, v) == n.carry = 0 /\ n.low = v

ZeroCounter == [del_messages |-> 0, del_bytes |-> 0, messages |-> 0, mboxes |-> 0]

InitLoc == [target_dir |-> "", messages |-> <<>>, to_remove |-> <<>>, idx |-> 0,
            key |-> 0, deleted_bytes |-> 0, exc |-> FALSE,
            seen |-> <<>>,     \* history: the items iteritems yielded
            stage |-> "",      \* history: "", "decided", "locked", "removed"
            removed |-> {}]    \* history: the keys this call of remove removed
InitHandle == [open |-> FALSE, locked |-> FALSE, flushed |-> FALSE, closed |-> FALSE]
InitCtx == [val |-> ZeroCounter, amt |-> ZeroCounter, ret |-> ""]
InitHist == [added |-> [f \in DOMAIN ZeroCounter |-> ExactZero],
                                       \* the exact sums of the amounts added
             removed |-> {},           \* the items mbox.remove has removed, with their folder
             dequeued |-> <<>>,        \* target directories in the order dequeued
             skipped |-> <<>>,         \* targets skipped as invalid
             completed |-> <<>>,       \* targets whose prune or validate returned
             storeFailed |-> FALSE,    \* some store operation failed
             extWrote |-> FALSE,       \* the external writer changed a folder
             findings |-> <<>>]        \* what validate printed

(***************************************************************************)
(* Directories.                                                            *)
(***************************************************************************)
NoDir == [kind |-> "nodir", items |-> <<>>, folders |-> <<>>, nextKey |-> 1]
PlainDir == [kind |-> "dir", items |-> <<>>, folders |-> <<>>, nextKey |-> 1]
Maildir(msgs, folders) ==
    [kind |-> "maildir",
     items |-> [i \in 1..Len(msgs) |->
                  [key |-> i, mid |-> msgs[i].mid, body |-> msgs[i].body,
                   cl |-> msgs[i].cl, hdrs |-> msgs[i].hdrs,
                   defects |-> msgs[i].defects]],
     folders |-> folders,
     nextKey |-> Len(msgs) + 1]

\* Content-Length: <<>> when the header is absent, <<n>> when it reads n
NoLen == <<>>
AllHdrs == {"date", "from", "subject"}
\* a message with date, from and subject and without parse defects
Msg(mid, body, cl) == [mid |-> mid, body |-> body, cl |-> cl, hdrs |-> AllHdrs,
                       defects |-> <<>>]


(***************************************************************************)
(* Counter.add_*: "with self.lock:" waits for the lock and the Value(s)    *)
(* are read; CounterWrite stores the sums and leaves the with-block.       *)
(***************************************************************************)
WithLock(w, amt, next) ==
    /\ clock = NoWorker
    /\ clock' = w
    /\ ctx' = [ctx EXCEPT ![w] = [val |-> counter, amt |-> amt, ret |-> next]]
    /\ pc' = [pc EXCEPT ![w] = "counter_write"]

Amount(dm, db, ms, mb) ==
    [del_messages |-> dm, del_bytes |-> db, messages |-> ms, mboxes |-> mb]

\* the Values an add_* call assigns: those of its "+=" statements
Assigned(next) ==
    CASE next \in {"iterate", "sub_iterate"} -> {"mboxes"}
      [] next = "decide" -> {"messages"}
      [] OTHER -> {"del_messages", "del_bytes"}

CounterWrite(w) ==
    /\ pc[w] = "counter_write"
    /\ counter' = [f \in DOMAIN counter |->
                     IF f \in Assigned(ctx[w].ret)
                     THEN AddWrap(ctx[w].val[f], ctx[w].amt[f]).low
                     ELSE counter[f]]
    /\ clock' = NoWorker
    /\ pc' = [pc EXCEPT ![w] = ctx[w].ret]
    /\ hist' = [hist EXCEPT !.added =
                  [f \in DOMAIN counter |-> ExactAdd(hist.added[f], ctx[w].amt[f])]]
    /\ UNCHANGED <<flags, fs, qbuffer, qpipe, cpc, report, loc, handle, ctx, extBudget>>

(***************************************************************************)
(* __main__, lines 278-316.                                                *)
(***************************************************************************)
IsDir(d) == fs[d].kind # "nodir"
\* the check of lines 229-232 with os.path.isdir(target_dir) in its place
AnyDirIsValid(d) == fs[d].kind # "nodir"

\* lines 226-232: cur, new and tmp all exist
IsValidMaildir(d) == fs[d].kind = "maildir"

\* lines 281-284: queue.put of every target that is a directory
Enqueue ==
    /\ cpc = "enqueue"
    /\ qbuffer' = SelectSeq(target_dirs, IsDir)
    /\ cpc' = "start"
    /\ UNCHANGED <<flags, fs, qpipe, report, pc, loc, handle, counter, clock, ctx,
                   extBudget, hist>>

\* lines 286-295: one Process per core, all started
StartAll ==
    /\ cpc = "start"
    /\ pc' = [w \in Workers |-> IF w <= num_cores THEN "loop" ELSE "unused"]
    /\ cpc' = "join"
    /\ UNCHANGED <<flags, fs, qbuffer, qpipe, report, loc, handle, counter, clock,
                   ctx, extBudget, hist>>

Exited(w) == pc[w] \in {"done", "crashed", "unused"}

\* lines 297-298: p.join() of every process
JoinAll ==
    /\ cpc = "join"
    /\ \A w \in Workers : Exited(w)
    /\ cpc' = "report"
    /\ UNCHANGED <<flags, fs, qbuffer, qpipe, report, pc, loc, handle, counter, clock,
                   ctx, extBudget, hist>>

\* lines 300-315: the get_* reads, each under the lock
Report ==
    /\ cpc = "report"
    /\ clock = NoWorker
    /\ report' = counter
    /\ cpc' = "done"
    /\ UNCHANGED <<flags, fs, qbuffer, qpipe, pc, loc, handle, counter, clock, ctx,
                   extBudget, hist>>

(***************************************************************************)
(* multiprocessing.Queue: put appends to a buffer of the putting process;  *)
(* its feeder thread writes the buffered items to the pipe, one by one.    *)
(***************************************************************************)
Feed ==
    /\ qbuffer # <<>>
    /\ qpipe' = Append(qpipe, Head(qbuffer))
    /\ qbuffer' = Tail(qbuffer)
    /\ UNCHANGED <<flags, fs, cpc, report, pc, loc, handle, counter, clock, ctx,
                   extBudget, hist>>

(***************************************************************************)
(* process, lines 219-244.                                                 *)
(***************************************************************************)
\* line 223: while not queue.empty()
Loop(w) ==
    /\ pc[w] = "loop"
    /\ pc' = [pc EXCEPT ![w] = IF qpipe = <<>> THEN "done" ELSE "get"]
    /\ UNCHANGED <<flags, fs, qbuffer, qpipe, cpc, report, loc, handle, counter,
                   clock, ctx, extBudget, hist>>

OpenHandle == [open |-> TRUE, locked |-> FALSE, flushed |-> FALSE, closed |-> FALSE]

\* lines 225-244: queue.get(False), the cur/new/tmp check, the dispatch on mode
Dequeue(w) ==
    /\ pc[w] = "get"
    /\ \/ /\ qpipe = <<>>                       \* Empty is raised and passed
          /\ pc' = [pc EXCEPT ![w] = "loop"]
          /\ UNCHANGED <<qpipe, loc, handle, hist>>
       \/ /\ qpipe # <<>>
          /\ qpipe' = Tail(qpipe)
          /\ loc' = [loc EXCEPT ![w] = [InitLoc EXCEPT !.target_dir = Head(qpipe)]]
          /\ IF ~IsValidMaildir(Head(qpipe))
             THEN /\ pc' = [pc EXCEPT ![w] = "loop"]
                  /\ hist' = [hist EXCEPT !.dequeued = Append(@, Head(qpipe)),
                                          !.skipped = Append(@, Head(qpipe))]
                  /\ UNCHANGED handle
             ELSE /\ pc' = [pc EXCEPT ![w] =
                              IF mode = "CHECK" THEN "validate" ELSE "add_mboxes"]
                  /\ hist' = [hist EXCEPT !.dequeued = Append(@, Head(qpipe))]
                  /\ handle' = [handle EXCEPT ![w] = OpenHandle]
    /\ UNCHANGED <<flags, fs, qbuffer, cpc, report, counter, clock, ctx, extBudget>>

(***************************************************************************)
(* prune, lines 131-181, of the store opened on the worker's target.       *)
(***************************************************************************)
Items(w) == fs[loc[w].target_dir].items

\* line 135
AddMboxes(w) ==
    /\ pc[w] = "add_mboxes"
    /\ WithLock(w, Amount(0, 0, 0, 1), "iterate")
    /\ UNCHANGED <<flags, fs, qbuffer, qpipe, cpc, report, loc, handle, counter,
                   extBudget, hist>>

\* lines 137-148
Iterate(w) ==
    /\ pc[w] = "iterate"
    /\ loc' = [loc EXCEPT ![w].messages = GroupByMessageId(Items(w), <<>>),
                          ![w].seen = Items(w)]
    /\ pc' = [pc EXCEPT ![w] = "add_messages"]
    /\ UNCHANGED <<flags, fs, qbuffer, qpipe, cpc, report, handle, counter, clock,
                   ctx, extBudget, hist>>

\* line 150
AddMessages(w) ==
    /\ pc[w] = "add_messages"
    /\ WithLock(w, Amount(0, 0, Len(loc[w].messages), 0), "decide")
    /\ UNCHANGED <<flags, fs, qbuffer, qpipe, cpc, report, loc, handle, counter,
                   extBudget, hist>>

\* DecideStep removing the first key it marks at once, while it still decides
DecideStepEager(w) ==
    /\ pc[w] = "decide"
    /\ ~DecideRaises(Items(w), loc[w].messages, fast)
    /\ LET marked == Decide(Items(w), loc[w].messages, fast, <<>>)
       IN  /\ loc' = [loc EXCEPT ![w].to_remove = marked,
                                 ![w].stage = "decided",
                                 ![w].removed = IF marked = <<>> THEN {} ELSE {marked[1].k}]
           /\ fs' = IF marked = <<>> THEN fs
                    ELSE [fs EXCEPT ![loc[w].target_dir].items = StoreDel(@, marked[1].k)]
    /\ pc' = [pc EXCEPT ![w] = "lock"]
    /\ UNCHANGED <<flags, qbuffer, qpipe, cpc, report, handle, counter, clock,
                   ctx, extBudget, hist>>

\* lines 154-175
DecideStep(w) ==
    /\ pc[w] = "decide"
    /\ IF DecideRaises(Items(w), loc[w].messages, fast)
       THEN /\ pc' = [pc EXCEPT ![w] = "crashed"]
            /\ UNCHANGED loc
       ELSE /\ loc' = [loc EXCEPT ![w].to_remove =
                                     Decide(Items(w), loc[w].messages, fast, <<>>),
                                 ![w].stage = "decided"]
            /\ pc' = [pc EXCEPT ![w] = "lock"]
    /\ UNCHANGED <<flags, fs, qbuffer, qpipe, cpc, report, handle, counter, clock,
                   ctx, extBudget, hist>>

(***************************************************************************)
(* remove, lines 98-128.                                                   *)
(***************************************************************************)
\* line 100
Lock(w) ==
    /\ pc[w] = "lock"
    /\ handle' = [handle EXCEPT ![w].locked = TRUE]
    /\ loc' = [loc EXCEPT ![w].idx = 1, ![w].stage = "locked"]
    /\ pc' = [pc EXCEPT ![w] = "remove_get"]
    /\ UNCHANGED <<flags, fs, qbuffer, qpipe, cpc, report, counter, clock, ctx,
                   extBudget, hist>>

ContentLength(it) == IF it.cl = <<>> THEN 0 ELSE it.cl[1]

\* lines 102-119: the next entry of to_remove; mbox.get gives None for a key that
\* is gone, and message["Message-Id"] then raises
RemoveGet(w) ==
    /\ pc[w] = "remove_get"
    /\ IF loc[w].idx > Len(loc[w].to_remove)
       THEN /\ pc' = [pc EXCEPT ![w] = "flush"]
            /\ UNCHANGED loc
       ELSE LET key == loc[w].to_remove[loc[w].idx].k
            IN  IF ~StoreHas(Items(w), key)
                THEN /\ loc' = [loc EXCEPT ![w].exc = TRUE]
                     /\ pc' = [pc EXCEPT ![w] = "flush"]
                ELSE /\ loc' = [loc EXCEPT ![w].key = key,
                                   ![w].deleted_bytes =
                                       ContentLength(StoreGet(Items(w), key))]
                     /\ pc' = [pc EXCEPT ![w] = "add_deleted"]
    /\ UNCHANGED <<flags, fs, qbuffer, qpipe, cpc, report, handle, counter, clock,
                   ctx, extBudget, hist>>

\* line 121
AddDeleted(w) ==
    /\ pc[w] = "add_deleted"
    /\ WithLock(w, Amount(1, loc[w].deleted_bytes, 0, 0), "remove_key")
    /\ UNCHANGED <<flags, fs, qbuffer, qpipe, cpc, report, loc, handle, counter,
                   extBudget, hist>>

\* line 123 without the test of dry_run
AlwaysRemove == TRUE

\* line 123: if not dry_run
ShouldRemove == ~dry_run

\* lines 123-124; Maildir.remove raises KeyError for a key that is gone
RemoveKey(w) ==
    /\ pc[w] = "remove_key"
    /\ IF ~ShouldRemove
       THEN /\ loc' = [loc EXCEPT ![w].idx = @ + 1]
            /\ pc' = [pc EXCEPT ![w] = "remove_get"]
            /\ UNCHANGED <<fs, hist>>
       ELSE IF ~StoreHas(Items(w), loc[w].key)
       THEN /\ loc' = [loc EXCEPT ![w].exc = TRUE]
            /\ pc' = [pc EXCEPT ![w] = "flush"]
            /\ UNCHANGED <<fs, hist>>
       ELSE /\ fs' = [fs EXCEPT ![loc[w].target_dir].items = StoreDel(@, loc[w].key)]
            /\ hist' = [hist EXCEPT !.removed = @ \cup
                          {[dir |-> loc[w].target_dir,
                            item |-> StoreGet(Items(w), loc[w].key)]}]
            /\ loc' = [loc EXCEPT ![w].idx = @ + 1, ![w].removed = @ \cup {loc[w].key}]
            /\ pc' = [pc EXCEPT ![w] = "remove_get"]
    /\ UNCHANGED <<flags, qbuffer, qpipe, cpc, report, handle, counter, clock, ctx,
                   extBudget>>

\* line 126
Flush(w) ==
    /\ pc[w] = "flush"
    /\ handle' = [handle EXCEPT ![w].flushed = TRUE]
    /\ pc' = [pc EXCEPT ![w] = "unlock"]
    /\ UNCHANGED <<flags, fs, qbuffer, qpipe, cpc, report, loc, counter, clock, ctx,
                   extBudget, hist>>

\* line 127
Unlock(w) ==
    /\ pc[w] = "unlock"
    /\ handle' = [handle EXCEPT ![w].locked = FALSE]
    /\ pc' = [pc EXCEPT ![w] = "close"]
    /\ UNCHANGED <<flags, fs, qbuffer, qpipe, cpc, report, loc, counter, clock, ctx,
                   extBudget, hist>>

\* line 128; an exception of the try block is raised again after the finally
\* block, nothing catches it and the process ends
Close(w) ==
    /\ pc[w] = "close"
    /\ handle' = [handle EXCEPT ![w].closed = TRUE]
    /\ pc' = [pc EXCEPT ![w] = IF loc[w].exc THEN "crashed" ELSE "list_folders"]
    /\ loc' = [loc EXCEPT ![w].stage = IF loc[w].exc THEN @ ELSE "removed"]
    /\ UNCHANGED <<flags, fs, qbuffer, qpipe, cpc, report, counter, clock, ctx,
                   extBudget, hist>>

(***************************************************************************)
(* prune, lines 179-181.  list_folders gives the names of the sub-folders, *)
(* and prune is called on the first name, a str.                           *)
(***************************************************************************)
ListFolders(w) ==
    /\ pc[w] = "list_folders"
    /\ IF fs[loc[w].target_dir].folders = <<>>
       THEN /\ pc' = [pc EXCEPT ![w] = "loop"]
            /\ hist' = [hist EXCEPT !.completed = Append(@, loc[w].target_dir)]
       ELSE /\ pc' = [pc EXCEPT ![w] = "sub_add_mboxes"]
            /\ UNCHANGED hist
    /\ UNCHANGED <<flags, fs, qbuffer, qpipe, cpc, report, loc, handle, counter,
                   clock, ctx, extBudget>>

\* line 135 of prune(subdir, ...)
SubAddMboxes(w) ==
    /\ pc[w] = "sub_add_mboxes"
    /\ WithLock(w, Amount(0, 0, 0, 1), "sub_iterate")
    /\ UNCHANGED <<flags, fs, qbuffer, qpipe, cpc, report, loc, handle, counter,
                   extBudget, hist>>

\* line 137 of prune(subdir, ...): a str has no iteritems, AttributeError ends
\* the process
SubIterate(w) ==
    /\ pc[w] = "sub_iterate"
    /\ pc' = [pc EXCEPT ![w] = "crashed"]
    /\ UNCHANGED <<flags, fs, qbuffer, qpipe, cpc, report, loc, handle, counter,
                   clock, ctx, extBudget, hist>>


(***************************************************************************)
(* validate, lines 184-216: what is printed for the messages of a folder.  *)
(***************************************************************************)
HasHeader(it, header) ==
    IF header = "message-id" THEN it.mid.present ELSE header \in it.hdrs

mandatory_headers == <<"date", "from">>
common_headers == <<"message-id", "subject">>

Missing(it, headers, level) ==
    LET absent == SelectSeq(headers, LAMBDA h : ~HasHeader(it, h))
    IN  [i \in 1..Len(absent) |-> [level |-> level, what |-> absent[i], key |-> it.key]]

\* lines 203-212: one line for every defect the parser recorded
Defects(it) ==
    [i \in 1..Len(it.defects) |->
       [level |-> "ParseWarning", what |-> it.defects[i], key |-> it.key]]

RECURSIVE Findings(_)
Findings(items) ==
    IF items = <<>> THEN <<>>
    ELSE Missing(Head(items), mandatory_headers, "Error")
         \o Missing(Head(items), common_headers, "Warning")
         \o Defects(Head(items))
         \o Findings(Tail(items))

\* lines 188-216; validate(subdir, ...) is called on a name, as in prune
Validate(w) ==
    /\ pc[w] = "validate"
    /\ hist' = [hist EXCEPT
                  !.findings = @ \o Findings(Items(w)),
                  !.completed = IF fs[loc[w].target_dir].folders = <<>>
                                THEN Append(@, loc[w].target_dir) ELSE @]
    /\ pc' = [pc EXCEPT ![w] =
                IF fs[loc[w].target_dir].folders = <<>> THEN "loop" ELSE "crashed"]
    /\ UNCHANGED <<flags, fs, qbuffer, qpipe, cpc, report, loc, handle, counter,
                   clock, ctx, extBudget>>

(***************************************************************************)
(* Store operations that fail (an OSError of iteritems, get, lock, remove  *)
(* or flush).  Outside the try block of remove the exception ends the      *)
(* process; inside, the finally block runs first; an exception of flush    *)
(* leaves the finally block at line 126.                                   *)
(***************************************************************************)
CallsGet(w) == \E i \in DOMAIN loc[w].messages : Len(loc[w].messages[i].v) > 1

FailOutsideTry(w) ==
    /\ faults
    /\ \/ pc[w] \in {"iterate", "lock", "validate"}
       \/ pc[w] = "decide" /\ CallsGet(w)
    /\ pc' = [pc EXCEPT ![w] = "crashed"]
    /\ hist' = [hist EXCEPT !.storeFailed = TRUE]
    /\ UNCHANGED <<flags, fs, qbuffer, qpipe, cpc, report, loc, handle, counter,
                   clock, ctx, extBudget>>

FailInTry(w) ==
    /\ faults
    /\ \/ pc[w] = "remove_get" /\ loc[w].idx <= Len(loc[w].to_remove)
       \/ pc[w] = "remove_key" /\ ShouldRemove
    /\ loc' = [loc EXCEPT ![w].exc = TRUE]
    /\ pc' = [pc EXCEPT ![w] = "flush"]
    /\ hist' = [hist EXCEPT !.storeFailed = TRUE]
    /\ UNCHANGED <<flags, fs, qbuffer, qpipe, cpc, report, handle, counter, clock,
                   ctx, extBudget>>

FailFlush(w) ==
    /\ faults
    /\ pc[w] = "flush"
    /\ pc' = [pc EXCEPT ![w] = "crashed"]
    /\ hist' = [hist EXCEPT !.storeFailed = TRUE]
    /\ UNCHANGED <<flags, fs, qbuffer, qpipe, cpc, report, loc, handle, counter,
                   clock, ctx, extBudget>>

(***************************************************************************)
(* An external writer of a folder that some worker has open.  It respects  *)
(* the store lock: it writes only while no handle on the folder is locked. *)
(* It deletes a message, or delivers a copy of one under a new key.        *)
(***************************************************************************)
InUse(d) == \E w \in Workers : /\ loc[w].target_dir = d
                               /\ handle[w].open /\ ~handle[w].closed
                               /\ pc[w] # "crashed"
LockHeld(d) == \E w \in Workers : loc[w].target_dir = d /\ handle[w].locked

ExtDelete ==
    /\ extBudget > 0
    /\ \E d \in Dirs :
          /\ InUse(d) /\ ~LockHeld(d)
          /\ \E key \in StoreKeys(fs[d].items) :
                fs' = [fs EXCEPT ![d].items = StoreDel(@, key)]
    /\ extBudget' = extBudget - 1
    /\ hist' = [hist EXCEPT !.extWrote = TRUE]
    /\ UNCHANGED <<flags, qbuffer, qpipe, cpc, report, pc, loc, handle, counter,
                   clock, ctx>>

ExtDeliver ==
    /\ extBudget > 0
    /\ \E d \in Dirs :
          /\ InUse(d) /\ ~LockHeld(d)
          /\ \E i \in DOMAIN fs[d].items :
                fs' = [fs EXCEPT
                         ![d].items = Append(@, [fs[d].items[i] EXCEPT
                                                   !.key = fs[d].nextKey]),
                         ![d].nextKey = @ + 1]
    /\ extBudget' = extBudget - 1
    /\ hist' = [hist EXCEPT !.extWrote = TRUE]
    /\ UNCHANGED <<flags, qbuffer, qpipe, cpc, report, pc, loc, handle, counter,
                   clock, ctx>>

(***************************************************************************)
(* Initial states.                                                         *)
(***************************************************************************)
SeqsUpTo(S, n) == UNION {[1..k -> S] : k \in 0..n}

RichIds == {NoHeader, StrHeader("<a@x>"), StrHeader("<b@x>")}
RichBodies == {Leaf("hello"), Leaf("world")}
RichMsgs == {Msg(mid, body, NoLen) : mid \in RichIds, body \in RichBodies}
               \cup {Msg(StrHeader("<a@x>"), Multi(<<Leaf("hello"), Leaf("world")>>), NoLen),
                     Msg(ObjHeader("<c@x>"), Leaf("hello"), NoLen)}

BoxDup == Maildir(<<Msg(StrHeader("<a@x>"), Leaf("hello"), <<1>>),
                    Msg(StrHeader("<a@x>"), Leaf("hello"), NoLen),
                    Msg(StrHeader("<a@x>"), Leaf("hello"), <<MaxInt>>)>>, <<>>)
BoxBig == Maildir(<<Msg(StrHeader("<a@x>"), Leaf("hello"), NoLen),
                    Msg(StrHeader("<a@x>"), Leaf("hello"), <<MaxInt>>)>>, <<>>)
BoxSub == Maildir(<<Msg(StrHeader("<a@x>"), Leaf("hello"), <<1>>),
                    Msg(NoHeader, Leaf("hello"), NoLen)>>, <<"sub">>)
BoxTwo == Maildir(<<Msg(StrHeader("<b@x>"), Leaf("world"), <<1>>),
                    Msg(StrHeader("<b@x>"), Leaf("world"), <<1>>)>>, <<>>)

\* two multipart messages with one identifier, whose first parts differ
BoxMulti == Maildir(<<Msg(StrHeader("<a@x>"), Multi(<<Leaf("hello"), Leaf("world")>>), NoLen),
                      Msg(StrHeader("<a@x>"), Multi(<<Leaf("world"), Leaf("hello")>>), NoLen)>>,
                    <<>>)
\* a message without From, a message without Message-Id and with a parse
\* defect, a message with neither Date nor Subject
NoFrom(m) == [m EXCEPT !.hdrs = @ \ {"from"}]
BoxCheck == Maildir(<<NoFrom(Msg(StrHeader("<a@x>"), Leaf("hello"), NoLen)),
                      [Msg(NoHeader, Leaf("hello"), NoLen)
                          EXCEPT !.defects = <<"StartBoundaryNotFoundDefect">>],
                      [Msg(StrHeader("<b@x>"), Leaf("world"), NoLen)
                          EXCEPT !.hdrs = {"from"}]>>, <<>>)

\* a directory with cur and new but without tmp, with two duplicates in cur
BoxNoTmp == [BoxTwo EXCEPT !.kind = "dir"]

InitProgram ==
    /\ qbuffer = <<>> /\ qpipe = <<>>
    /\ cpc = "enqueue"
    /\ report = ZeroCounter
    /\ pc = [w \in Workers |-> "unused"]
    /\ loc = [w \in Workers |-> InitLoc]
    /\ handle = [w \in Workers |-> InitHandle]
    /\ counter = ZeroCounter
    /\ clock = NoWorker
    /\ ctx = [w \in Workers |-> InitCtx]
    /\ hist = InitHist

\* one worker, one target: any folder of up to MaxMsgs messages
InitRich ==
    /\ mode = "PRUNE"
    /\ fast \in BOOLEAN /\ dry_run \in BOOLEAN
    /\ faults = FALSE /\ extBudget = 0
    /\ \E msgs \in SeqsUpTo(RichMsgs, MaxMsgs) :
          fs = [d \in Dirs |-> IF d = "d1" THEN Maildir(msgs, <<>>) ELSE NoDir]

\* one worker, one target: failing stores, an external writer, a sub-folder,
\* a directory that is no Maildir, both modes
InitCases ==
    /\ mode \in {"PRUNE", "CHECK"}
    /\ fast \in BOOLEAN /\ dry_run \in BOOLEAN
    /\ faults \in BOOLEAN /\ extBudget \in {0, 1}
    /\ \E box \in {PlainDir, BoxDup, BoxSub, BoxMulti, BoxCheck} :
          fs = [d \in Dirs |-> IF d = "d1" THEN box ELSE NoDir]

Init ==
    /\ InitProgram
    /\ num_cores = 1
    /\ target_dirs = <<"d1">>
    /\ (InitRich \/ InitCases)

\* the whole run: up to MaxCores workers, up to MaxTargets targets
InitRun ==
    /\ InitProgram
    /\ num_cores \in 1..MaxCores
    /\ target_dirs \in UNION {[1..k -> Dirs] : k \in 1..MaxTargets}
    /\ mode \in {"PRUNE", "CHECK"}
    /\ fast = FALSE /\ dry_run \in BOOLEAN
    /\ faults \in BOOLEAN /\ extBudget = 0
    /\ \E b1 \in {BoxBig, BoxSub}, b2 \in {NoDir, PlainDir, BoxTwo} :
          fs = [d \in Dirs |-> IF d = "d1" THEN b1 ELSE b2]

\* one worker, up to MaxTargets targets, taken one after the other
InitSeq ==
    /\ InitProgram
    /\ num_cores = 1
    /\ target_dirs \in UNION {[1..k -> Dirs] : k \in 1..MaxTargets}
    /\ mode \in {"PRUNE", "CHECK"}
    /\ fast = FALSE /\ dry_run \in BOOLEAN
    /\ faults \in BOOLEAN /\ extBudget = 0
    /\ \E b1 \in {BoxDup, BoxSub}, b2 \in {NoDir, BoxNoTmp, BoxTwo} :
          fs = [d \in Dirs |-> IF d = "d1" THEN b1 ELSE b2]

WorkerStep(w) ==
    \/ Loop(w) \/ Dequeue(w)
    \/ AddMboxes(w) \/ Iterate(w) \/ AddMessages(w) \/ DecideStep(w)
    \/ Lock(w) \/ RemoveGet(w) \/ AddDeleted(w) \/ RemoveKey(w)
    \/ Flush(w) \/ Unlock(w) \/ Close(w)
    \/ ListFolders(w) \/ SubAddMboxes(w) \/ SubIterate(w)
    \/ Validate(w) \/ CounterWrite(w)

StoreFailure(w) == FailOutsideTry(w) \/ FailInTry(w) \/ FailFlush(w)

MainStep == Enqueue \/ StartAll \/ JoinAll \/ Report

NextRun ==
    \/ MainStep
    \/ Feed
    \/ \E w \in Workers : WorkerStep(w)
    \/ \E w \in Workers : StoreFailure(w)

Next ==
    \/ MainStep
    \/ Feed
    \/ \E w \in Workers : WorkerStep(w)
    \/ \E w \in Workers : StoreFailure(w)
    \/ ExtDelete
    \/ ExtDeliver

Spec == Init /\ [][Next]_vars

SpecRun == InitRun /\ [][NextRun]_vars

SpecSeq == InitSeq /\ [][NextRun]_vars


(***************************************************************************)
(*                              The claims                                 *)
(***************************************************************************)
Digest(it) == hash_content(it.body)

\* two messages carry the same Message-Id header and have the same digest
SameIdAndDigest(x, y) ==
    /\ x.mid.present /\ y.mid.present
    /\ x.mid = y.mid
    /\ Digest(x) = Digest(y)

\* the same, for Message-Ids that read as strings
SameStrIdAndDigest(x, y) ==
    /\ SameIdAndDigest(x, y)
    /\ x.mid.hashable /\ y.mid.hashable

\* the keys that are not the first of their class, in iteration order
NotFirst(seen, Same(_, _)) ==
    {seen[j].key : j \in {j \in DOMAIN seen :
                            \E i \in 1..(j - 1) : Same(seen[i], seen[j])}}

\* of every class exactly one member is still in the store, the first one
OneSurvivor(seen, items, Same(_, _)) ==
    \A j \in DOMAIN seen :
       LET class == {i \in DOMAIN seen : i = j \/ Same(seen[i], seen[j])}
           alive == {i \in class : StoreHas(items, seen[i].key)}
       IN  /\ Cardinality(alive) = 1
           /\ \A i \in alive : \A k \in class : i <= k

Undisturbed == ~hist.extWrote /\ ~hist.storeFailed

DecisionIs(w, Same(_, _)) ==
    /\ (~fast /\ loc[w].stage # "")
          => DictKeys(loc[w].to_remove) = NotFirst(loc[w].seen, Same)
    /\ (~fast /\ ~dry_run /\ loc[w].stage = "removed" /\ Undisturbed)
          => OneSurvivor(loc[w].seen, Items(w), Same)

(***************************************************************************)
(* C1, as stated: in normal mode the Removal Decision holds exactly the    *)
(* keys that are not the first, in iteration order, among the keys with    *)
(* the same Message-Id and the same digest, and after a prune that is not  *)
(* a dry run exactly one message of each such class, the first, is left.   *)
(* Fails for Message-Ids that read as Header objects (non-ASCII bytes):    *)
(* line 143 raises TypeError for them and the message is left out.         *)
(***************************************************************************)
C1_AnyMessageId == \A w \in Workers : DecisionIs(w, SameIdAndDigest)

(***************************************************************************)
(* C1, amended: the same, for the classes of messages whose Message-Id     *)
(* reads as a string; every other message is its own class and survives.   *)
(***************************************************************************)
C1_StringMessageId == \A w \in Workers : DecisionIs(w, SameStrIdAndDigest)

\* three messages with one identifier and one digest have been pruned to one
C1_Witness ==
    /\ ~fast /\ ~dry_run /\ Undisturbed
    /\ loc[1].stage = "removed"
    /\ Len(loc[1].seen) = 3
    /\ \A i \in 1..3 : SameStrIdAndDigest(loc[1].seen[1], loc[1].seen[i])
    /\ Len(Items(1)) = 1
    /\ Items(1)[1].key = loc[1].seen[1].key


(***************************************************************************)
(* C2: a message without a Message-Id header is never put in the Removal   *)
(* Decision and never removed from its store by the program, in every      *)
(* mode and whatever else the folder holds.                                *)
(***************************************************************************)
C2_NoIdNeverRemoved ==
    /\ [](/\ \A w \in Workers : \A i \in DOMAIN loc[w].to_remove :
               \A j \in DOMAIN loc[w].seen :
                  loc[w].seen[j].key = loc[w].to_remove[i].k
                     => loc[w].seen[j].mid.present
          /\ \A r \in hist.removed : r.item.mid.present)
    /\ [][extBudget' = extBudget =>
            \A d \in Dirs : \A i \in DOMAIN fs[d].items :
               ~fs[d].items[i].mid.present
                  => \E j \in DOMAIN fs'[d].items : fs'[d].items[j] = fs[d].items[i]]_vars

\* fast mode, not a dry run: a duplicate was removed, and a message without
\* Message-Id that has the digest of the removed one is still there
C2_Witness ==
    /\ fast /\ ~dry_run
    /\ loc[1].stage = "removed"
    /\ \E r \in hist.removed : \E i \in DOMAIN Items(1) :
          /\ ~Items(1)[i].mid.present
          /\ Digest(Items(1)[i]) = Digest(r.item)

(***************************************************************************)
(* C3: with dry_run set the program never removes a message: no call of    *)
(* the store's remove succeeds, and no step of the program changes any     *)
(* folder (only the external writer's steps do).                           *)
(***************************************************************************)
C3_DryRunKeepsStores ==
    /\ [](dry_run => hist.removed = {})
    /\ [][(dry_run /\ extBudget' = extBudget) => fs' = fs]_vars

\* a dry run has gone through a Removal Decision that is not empty
C3_Witness ==
    /\ dry_run
    /\ loc[1].stage = "removed"
    /\ loc[1].to_remove # <<>>
    /\ counter.del_messages = Len(loc[1].to_remove)
    /\ Items(1) = loc[1].seen

(***************************************************************************)
(* C4: for the same folder every key marked for removal in normal mode is  *)
(* marked in fast mode too; the Removal Decision of the run is the one of  *)
(* its mode.                                                               *)
(***************************************************************************)
NormalKeys(w) == DictKeys(Decide(loc[w].seen, loc[w].messages, FALSE, <<>>))
FastKeys(w) == DictKeys(Decide(loc[w].seen, loc[w].messages, TRUE, <<>>))

C4_FastMarksSuperset ==
    \A w \in Workers :
       loc[w].stage # ""
          => /\ NormalKeys(w) \subseteq FastKeys(w)
             /\ DictKeys(loc[w].to_remove) = IF fast THEN FastKeys(w) ELSE NormalKeys(w)

\* one identifier, bodies hello, hello, world: one key in normal mode, two in fast
C4_Witness ==
    /\ fast
    /\ loc[1].stage # ""
    /\ Len(loc[1].seen) = 3
    /\ \A i \in 1..3 : loc[1].seen[i].mid = StrHeader("<a@x>")
    /\ loc[1].seen[1].body = Leaf("hello")
    /\ loc[1].seen[2].body = Leaf("hello")
    /\ loc[1].seen[3].body = Leaf("world")
    /\ NormalKeys(1) = {loc[1].seen[2].key}
    /\ DictKeys(loc[1].to_remove) = {loc[1].seen[2].key, loc[1].seen[3].key}

(***************************************************************************)
(* C5: when no two messages of the folder have the same Message-Id, the    *)
(* Removal Decision is empty, remove removes nothing and the folder is     *)
(* left as it was, in fast and in normal mode.                             *)
(***************************************************************************)
NoSharedId(seen) ==
    \A i, j \in DOMAIN seen :
       (i # j /\ seen[i].mid.present /\ seen[j].mid.present)
          => seen[i].mid # seen[j].mid

C5_UniqueIdsUntouched ==
    \A w \in Workers :
       (loc[w].stage # "" /\ NoSharedId(loc[w].seen))
          => /\ loc[w].to_remove = <<>>
             /\ loc[w].removed = {}
             /\ (loc[w].stage = "removed" /\ ~hist.extWrote) => Items(w) = loc[w].seen

\* three messages with three identifiers and one body went through a prune
C5_Witness ==
    /\ ~dry_run
    /\ loc[1].stage = "removed"
    /\ Len(loc[1].seen) = 3
    /\ \A i \in 1..3 : loc[1].seen[i].mid.present /\ loc[1].seen[i].body = Leaf("hello")
    /\ NoSharedId(loc[1].seen)
    /\ Items(1) = loc[1].seen


(***************************************************************************)
(* Where a worker is in prune and remove.                                  *)
(***************************************************************************)
At(w, places) == pc[w] \in places \/ (pc[w] = "counter_write" /\ ctx[w].ret \in places)

\* prune before remove is called: the iterate, get and hash steps
Reading(w) == At(w, {"add_mboxes", "iterate", "add_messages", "decide"}) \/ pc[w] = "lock"
\* inside remove
InRemove(w) ==
    \/ pc[w] \in {"lock", "remove_get", "add_deleted", "flush", "unlock", "close"}
    \/ At(w, {"remove_key"})
\* from the iteration that builds the Removal Decision to the last deletion
ReadDecideDelete(w) ==
    \/ pc[w] \in {"add_messages", "lock", "remove_get", "add_deleted"}
    \/ At(w, {"decide", "remove_key"})

(***************************************************************************)
(* C6: in the processing of one folder no message is removed before the    *)
(* whole Removal Decision has been computed: while prune still iterates,   *)
(* gets or hashes, it has removed nothing; each removal is a step of       *)
(* remove's loop (line 124), taken with the Removal Decision complete and  *)
(* left as it is; and no other step of the program changes a folder.       *)
(***************************************************************************)
C6_DecideBeforeRemove ==
    /\ [](\A w \in Workers : Reading(w) => loc[w].removed = {})
    /\ [][/\ \A w \in Workers :
               loc'[w].removed \notin {loc[w].removed, {}}
                  => /\ pc[w] = "remove_key" /\ loc[w].stage = "locked"
                     /\ loc'[w].to_remove = loc[w].to_remove
                     /\ loc'[w].removed \subseteq DictKeys(loc[w].to_remove)
                     /\ DictKeys(loc[w].to_remove) =
                           IF fast THEN FastKeys(w) ELSE NormalKeys(w)
          /\ (extBudget' = extBudget /\ fs' # fs)
                => \E w \in Workers : loc'[w].removed \notin {loc[w].removed, {}}]_vars

\* the first of two marked keys has been removed, the second not yet
C6_Witness ==
    /\ pc[1] = "remove_get"
    /\ Len(loc[1].to_remove) = 2
    /\ loc[1].removed = {loc[1].to_remove[1].k}
    /\ StoreHas(Items(1), loc[1].to_remove[2].k)

(***************************************************************************)
(* C7: the folder's lock is held during the whole read-decide-delete       *)
(* sequence, so that no external writer that respects the lock changes the *)
(* folder between the iteration and the deletions.  Fails: mbox.lock() is  *)
(* the first statement of remove (line 100), after the iteration and the   *)
(* decision (lines 137-175).                                               *)
(***************************************************************************)
C7_LockCoversReadDecideDelete ==
    [][extBudget' # extBudget =>
         \A w \in Workers :
            ReadDecideDelete(w) => fs'[loc[w].target_dir] = fs[loc[w].target_dir]]_vars

(***************************************************************************)
(* C8: once remove has the lock, every way of leaving remove (its normal   *)
(* end, a failure of get, remove or flush) leaves the store flushed,       *)
(* unlocked and closed.  Fails: an exception of mbox.flush() (line 126)    *)
(* leaves the finally block before unlock and close.                       *)
(***************************************************************************)
C8_RemoveReleasesStore ==
    \A w \in Workers :
       (loc[w].stage \in {"locked", "removed"} /\ ~InRemove(w))
          => /\ handle[w].flushed
             /\ ~handle[w].locked
             /\ handle[w].closed

(***************************************************************************)
(* C9: the totals main reads after the joins are, for each of the four     *)
(* counters, the sum of the amounts the workers added, and main reads them *)
(* only after every worker has exited.  Fails: the sums are stored in C    *)
(* ints and taken modulo 2^32 (see C16).                                   *)
(***************************************************************************)
C9_TotalsAreSums ==
    /\ cpc \in {"report", "done"} => \A w \in Workers : Exited(w)
    /\ cpc = "done" => \A f \in DOMAIN report : ExactIs(hist.added[f], report[f])

\* What holds of the counters: no update is lost, the totals are the sums
\* modulo 2^32.
TotalsAreSumsModulo ==
    /\ cpc \in {"report", "done"} => \A w \in Workers : Exited(w)
    /\ cpc = "done" => \A f \in DOMAIN report : hist.added[f].low = report[f]

(***************************************************************************)
(* C10: when no store operation fails and all workers have exited, the     *)
(* queue is empty and every target that was enqueued has been dequeued     *)
(* exactly once and was skipped as invalid or processed to its end.        *)
(* Fails: empty() (line 223) is true until the queue's feeder thread has   *)
(* written the items to the pipe, so the workers may all exit at once; and *)
(* a worker ends on the first sub-folder it finds (line 181).              *)
(***************************************************************************)
AllExited == cpc # "enqueue" /\ cpc # "start" /\ \A w \in Workers : Exited(w)

C10_QueueDrained ==
    (AllExited /\ ~hist.storeFailed)
       => /\ qbuffer = <<>> /\ qpipe = <<>>
          /\ hist.dequeued = SelectSeq(target_dirs, IsDir)
          /\ Len(hist.skipped) + Len(hist.completed) = Len(hist.dequeued)

(***************************************************************************)
(* C11: when a store operation fails while a worker processes a target,    *)
(* only that target is abandoned: once all workers have exited, every      *)
(* valid target that was enqueued has been processed to its end, except    *)
(* one target for each worker that a failure ended.  Fails: nothing in     *)
(* process catches the exception (line 243 catches Empty only), so it ends *)
(* the worker, and the targets still in the queue stay there when no other *)
(* worker is left.                                                         *)
(***************************************************************************)
Ended == {w \in Workers : pc[w] = "crashed"}

C11_OtherTargetsProcessed ==
    (AllExited /\ hist.storeFailed)
       => Len(hist.completed) + Cardinality(Ended)
             >= Len(SelectSeq(target_dirs, IsValidMaildir))

(***************************************************************************)
(* C12: a dequeued target that lacks one of cur, new, tmp is skipped: the  *)
(* step that dequeues it opens no store, removes nothing, changes no       *)
(* counter and leaves the worker at the head of its loop (line 223), from  *)
(* where it dequeues the next target; no message of such a directory is    *)
(* ever removed.                                                           *)
(***************************************************************************)
C12_InvalidTargetSkipped ==
    /\ [](\A r \in hist.removed : fs[r.dir].kind = "maildir")
    /\ [][\A w \in Workers :
             (/\ pc[w] = "get" /\ pc'[w] # "get"
              /\ qpipe # <<>> /\ fs[Head(qpipe)].kind # "maildir")
                => /\ pc'[w] = "loop"
                   /\ hist'.skipped = Append(hist.skipped, Head(qpipe))
                   /\ handle' = handle
                   /\ fs' = fs
                   /\ counter' = counter /\ clock' = clock /\ ctx' = ctx
                   /\ qpipe' = Tail(qpipe)]_vars

\* the directory without tmp was skipped with its duplicates left alone, and
\* the same worker then pruned the Maildir that came after it
C12_Witness ==
    /\ mode = "PRUNE" /\ ~dry_run
    /\ target_dirs = <<"d2", "d1">>
    /\ hist.skipped = <<"d2">>
    /\ hist.completed = <<"d1">>
    /\ fs["d2"] = BoxNoTmp
    /\ hist.removed # {}
    /\ counter.mboxes = 1

(***************************************************************************)
(* C13: for any list of target directories, at every moment each folder is *)
(* open in at most one worker.  Fails: main enqueues every argument that   *)
(* is a directory (lines 282-284), a directory named twice is enqueued     *)
(* twice, and two workers dequeue it and open one store each on it.        *)
(***************************************************************************)
Processing(w) == ~Exited(w) /\ pc[w] \notin {"loop", "get"}

C13_OneWorkerPerFolder ==
    \A v, w \in Workers :
       (v # w /\ Processing(v) /\ Processing(w))
          => loc[v].target_dir # loc[w].target_dir

(***************************************************************************)
(* C14: in one worker's handling of a target, the folder's removals are    *)
(* finished and its lock is released before a declared sub-folder is       *)
(* entered; the worker then prunes every declared sub-folder itself, so    *)
(* that when it leaves prune the target is complete; and no sub-folder is  *)
(* put on the queue.  Fails: list_folders() gives the sub-folders' names,  *)
(* prune(subdir, ...) (line 181) is called on a str and ends the worker    *)
(* on AttributeError at line 137; no sub-folder is ever pruned.            *)
(***************************************************************************)
InSubFolder(w) == pc[w] = "sub_add_mboxes" \/ At(w, {"sub_iterate"})
Range(q) == {q[i] : i \in DOMAIN q}

C14_SubFoldersPrunedAfterParent ==
    /\ \A w \in Workers :
          InSubFolder(w) => (loc[w].stage = "removed" /\ ~handle[w].locked)
    /\ \A w \in Workers :
          (loc[w].stage = "removed" /\ ~Processing(w))
             => loc[w].target_dir \in Range(hist.completed)
    /\ Range(qbuffer) \cup Range(qpipe) \subseteq Range(target_dirs)

\* What holds of the order: a sub-folder is entered only after remove has
\* returned, with the lock released.
ParentDoneBeforeSubFolders ==
    \A w \in Workers :
       InSubFolder(w) => (loc[w].stage = "removed" /\ ~handle[w].locked
                          /\ handle[w].closed)

(***************************************************************************)
(* C15: the digest of a multipart message is the hash of its first child's *)
(* digest: two multipart messages have equal digests exactly when their    *)
(* first children's digests are equal, and multipart messages whose first  *)
(* parts differ are not judged content duplicates (in normal mode neither  *)
(* is marked because of the other).  Fails: line 92 computes               *)
(* hashes[0].join(""), the characters of "" joined with hashes[0] between  *)
(* them, which is "": every multipart message has the digest sha256("").   *)
(***************************************************************************)
FirstPartDigest(it) == hash_content(it.body.parts[1])

C15_MultipartDigestOfFirstPart ==
    \A w \in Workers : \A i, j \in DOMAIN loc[w].seen :
       LET x == loc[w].seen[i]
           y == loc[w].seen[j]
       IN  (x.body.multipart /\ y.body.multipart)
              => /\ Digest(x) = Sha256(FirstPartDigest(x))
                 /\ (Digest(x) = Digest(y)) <=> (FirstPartDigest(x) = FirstPartDigest(y))
                 /\ (/\ ~fast /\ loc[w].stage # "" /\ Len(loc[w].seen) = 2 /\ i # j
                     /\ FirstPartDigest(x) # FirstPartDigest(y))
                       => loc[w].to_remove = <<>>

(***************************************************************************)
(* C16: none of the four run counters ever decreases: after every step of  *)
(* the run each counter is at least what it was before.  Fails: the        *)
(* counters are Value("i"), C ints; "+=" stores the sum modulo 2^32, and   *)
(* del_bytes, fed from Content-Length headers, passes 2^31 - 1.            *)
(***************************************************************************)
C16_CountersNeverDecrease ==
    [][\A f \in DOMAIN counter : counter'[f] >= counter[f]]_vars

(***************************************************************************)
(* C17: a message of the Removal Decision without Content-Length is        *)
(* counted as one deleted message with zero bytes and, unless dry_run is   *)
(* set, removed, without an error; and the bytes counter is the sum of the *)
(* Content-Length values of the messages counted as deleted.  The last     *)
(* part fails with C16: the sum is stored modulo 2^32.                     *)
(***************************************************************************)
NoLengthCountsZero ==
    [][\A w \in Workers :
         (pc[w] = "remove_get" /\ pc'[w] = "add_deleted"
          /\ StoreGet(Items(w), loc'[w].key).cl = NoLen)
            => loc'[w].deleted_bytes = 0]_vars

C17_BytesAreSumOfLengths ==
    \A w \in Workers :
       /\ (pc[w] = "add_deleted" /\ StoreGet(loc[w].seen, loc[w].key).cl = NoLen)
             => loc[w].deleted_bytes = 0
       /\ (loc[w].stage = "removed" /\ clock = NoWorker)
             => ExactIs(hist.added.del_bytes, counter.del_bytes)

(***************************************************************************)
(* C18: validate prints, for every message of the folder and of its        *)
(* declared sub-folders, one Error for each absent mandatory header (date, *)
(* from), one Warning for each absent common header (message-id, subject)  *)
(* and one ParseWarning for each defect, and changes no store and no       *)
(* counter; a message that lacks only From gives one Error and no Warning. *)
(* Fails for sub-folders: validate(subdir, ...) (line 216) is called on a  *)
(* folder's name and ends the worker, so no message of a sub-folder is     *)
(* looked at.                                                              *)
(***************************************************************************)
Printed(level, key) ==
    Cardinality({i \in DOMAIN hist.findings :
                   hist.findings[i].level = level /\ hist.findings[i].key = key})

Absent(it, headers) ==
    Cardinality({h \in headers : IF h = "message-id" THEN ~it.mid.present
                                 ELSE h \notin it.hdrs})

FindingsOfFolder(items) ==
    \A i \in DOMAIN items :
       /\ Printed("Error", items[i].key) = Absent(items[i], {"date", "from"})
       /\ Printed("Warning", items[i].key) = Absent(items[i], {"message-id", "subject"})
       /\ Printed("ParseWarning", items[i].key) = Len(items[i].defects)

Validated(w) ==
    /\ mode = "CHECK" /\ loc[w].target_dir # ""
    /\ fs[loc[w].target_dir].kind = "maildir"
    /\ ~Processing(w) /\ ~hist.storeFailed

C18_ValidateReportsAll ==
    /\ [](mode = "CHECK" => (counter = ZeroCounter /\ hist.removed = {}))
    /\ [][(mode = "CHECK" /\ extBudget' = extBudget) => fs' = fs]_vars
    /\ [](\A w \in Workers :
            Validated(w)
               => /\ FindingsOfFolder(Items(w))
                  /\ loc[w].target_dir \in Range(hist.completed))

\* What holds of validate: the findings of the folder itself, with no store
\* and no counter changed.
ValidateReportsFolder ==
    /\ [](mode = "CHECK" => (counter = ZeroCounter /\ hist.removed = {}))
    /\ [][(mode = "CHECK" /\ extBudget' = extBudget) => fs' = fs]_vars
    /\ [](\A w \in Workers :
            (Validated(w) /\ ~hist.extWrote) => FindingsOfFolder(Items(w)))

(***************************************************************************)
(* C19: after a prune run of one target in which no store operation fails, *)
(* the messages counter main reads is the number of messages iterated      *)
(* (those without Message-Id and the duplicates included) and the          *)
(* mailboxes counter is the number of folders pruned.  Fails: line 150     *)
(* adds len(messages), the number of distinct Message-Ids (messages is the *)
(* dict of identifier groups); and a sub-folder is counted at line 135     *)
(* before the worker ends on it unpruned.                                  *)
(***************************************************************************)
PrunedOnce(w) ==
    /\ cpc = "done" /\ mode = "PRUNE"
    /\ hist.dequeued = <<loc[w].target_dir>>
    /\ loc[w].stage = "removed"
    /\ Undisturbed

C19_CountersCountMessagesAndFolders ==
    \A w \in Workers :
       PrunedOnce(w) => /\ report.messages = Len(loc[w].seen)
                        /\ report.mboxes = 1

(***************************************************************************)
(* C20: in a run that is not a dry run, whenever remove has exited, also   *)
(* after a failure of the store's get, remove or flush, the deleted        *)
(* messages counter is the number of keys the store's remove removed.      *)
(* Fails: add_deleted (line 121) is called before mbox.remove (line 124);  *)
(* when that remove raises, the message is counted and still in the store. *)
(***************************************************************************)
RemoveExited(w) == loc[w].stage \in {"locked", "removed"} /\ ~InRemove(w)

C20_DeletionsNotOverCounted ==
    (~dry_run /\ ~hist.extWrote /\ Len(hist.dequeued) = 1)
       => \A w \in Workers :
             RemoveExited(w) => counter.del_messages = Cardinality(loc[w].removed)

=============================================================================
